---- MODULE Spec2Model ----
(***************************************************************************)
(* Model of crates/bevy_asset/src/http_source.rs: the http/https asset     *)
(* source (HttpSourceAssetReader), its origin policy (AllowedOrigins),     *)
(* the native `get`, the naive disk cache (mod http_asset_cache) and the   *)
(* readers HttpSourcePlugin registers.                                     *)
(*                                                                         *)
(* Spec is a reader serving requests in the build without the feature      *)
(* http_source_cache, SpecHttpSourceCache one in the build with it;        *)
(* SpecCancel adds the cancellation of requests; SpecPlugin starts from a  *)
(* reader the plugin registered; SpecPolicy and SpecCache call the origin  *)
(* policy and the cache functions directly.                                *)
(*                                                                         *)
(* Strings and paths are sequences of tokens; the string a sequence stands *)
(* for is the concatenation of its tokens.  The token "<FF>" stands for a  *)
(* byte that is not valid UTF-8, "<U+FFFD>" for the replacement character  *)
(* that Path::display prints in its place.                                 *)
(***************************************************************************)
EXTENDS Integers, Sequences, FiniteSets, TLC

\* Bound of the model: the number of requests made.
MaxRequests == 2

\* The tasks of the executor that make requests.
Tasks == {1, 2}

\* ------------------------------------------------------------------------
\* Strings

RECURSIVE HasToken(_, _)
HasToken(s, tok) ==
    IF s = <<>> THEN FALSE
    ELSE IF Head(s) = tok THEN TRUE ELSE HasToken(Tail(s), tok)

\* s contains sub as a contiguous substring
Contains(s, sub) ==
    \E i \in 0..(Len(s) - Len(sub)) : SubSeq(s, i + 1, i + Len(sub)) = sub

StartsWith(s, pre) == Len(s) >= Len(pre) /\ SubSeq(s, 1, Len(pre)) = pre

EndsWith(s, suf) ==
    Len(s) >= Len(suf) /\ SubSeq(s, Len(s) - Len(suf) + 1, Len(s)) = suf

\* Path::to_str: Some(str) iff the path is valid UTF-8
is_utf8(path) == ~HasToken(path, "<FF>")

\* path.to_str().unwrap_or_default()
to_str_or_default(path) == IF is_utf8(path) THEN path ELSE <<>>

\* Path::display: lossy, every invalid byte is printed as U+FFFD
display(path) ==
    [i \in 1..Len(path) |-> IF path[i] = "<FF>" THEN "<U+FFFD>" ELSE path[i]]

\* Path::is_absolute on the native (unix) target
is_absolute(path) == Len(path) > 0 /\ path[1] = "/"

\* PathBuf::join / PathBuf::push: an absolute argument replaces the base; a
\* separator is inserted only when the base does not already end with one.
path_join(base, path) ==
    IF is_absolute(path) THEN path
    ELSE IF Len(base) > 0 /\ base[Len(base)] # "/" THEN base \o <<"/">> \o path
    ELSE base \o path

\* ------------------------------------------------------------------------
\* url::Url::parse and Url::origin, for the strings of this model

\* tokens that end a name with a colon: "http:" is the name http and a colon
SchemeTokens == {"http:", "https:"}

SchemeName(tok) == IF tok = "https:" THEN "https" ELSE "http"

\* the schemes with a default port (of those, the ones of this model)
SpecialSchemes == {<<"http">>, <<"https">>}

DefaultPort(scheme) == IF scheme = <<"https">> THEN 443 ELSE 80

\* tokens that are a colon and digits after it
PortTokens == {":8443"}

PortNumber(tok) == 8443

\* the digits of a port token
PortDigits(tok) == "8443"

\* tokens of letters, digits and dots only, and those that begin with a letter
NameTokens == {"a.com", "b.com", "x", "y", ".png", ".meta"}

AlphaTokens == {"a.com", "b.com", "x", "y"}

ParseError == [ok |-> FALSE, scheme |-> <<>>, host |-> <<>>, port |-> 0]

RECURSIVE SkipSlashes(_)
SkipSlashes(s) ==
    IF s # <<>> /\ Head(s) = "/" THEN SkipSlashes(Tail(s)) ELSE s

RECURSIVE UntilSlash(_)
UntilSlash(s) ==
    IF s = <<>> \/ Head(s) = "/" THEN <<>> ELSE <<Head(s)>> \o UntilSlash(Tail(s))

\* the position of the token with the first colon of s when only name
\* tokens come before it, 0 when there is none
RECURSIVE FirstColon(_)
FirstColon(s) ==
    IF s = <<>> THEN 0
    ELSE IF Head(s) \in SchemeTokens \cup PortTokens THEN 1
    ELSE IF Head(s) \in NameTokens
    THEN LET n == FirstColon(Tail(s)) IN IF n = 0 THEN 0 ELSE n + 1
    ELSE 0

\* what stands before the first colon of s, and what stands after it
BeforeColon(s) ==
    LET n == FirstColon(s)
    IN  SubSeq(s, 1, n - 1)
            \o (IF s[n] \in SchemeTokens THEN <<SchemeName(s[n])>> ELSE <<>>)

AfterColon(s) ==
    LET n == FirstColon(s)
    IN  (IF s[n] \in PortTokens THEN <<PortDigits(s[n])>> ELSE <<>>)
            \o SubSeq(s, n + 1, Len(s))

\* host and port of an authority: the host runs to the first colon, the port
\* is what follows it, digits or nothing (the scheme's default port)
AuthorityHost(auth) ==
    IF FirstColon(auth) = 0 THEN auth ELSE BeforeColon(auth)

AuthorityPortOk(auth) ==
    \/ FirstColon(auth) = 0
    \/ AfterColon(auth) = <<>>
    \/ \E tok \in PortTokens : AfterColon(auth) = <<PortDigits(tok)>>

AuthorityPort(auth, scheme) ==
    IF FirstColon(auth) # 0 /\ AfterColon(auth) # <<>>
    THEN PortNumber(auth[FirstColon(auth)])
    ELSE DefaultPort(scheme)

\* Url::parse(s): the scheme is what stands before the first colon, letters,
\* digits and dots that begin with a letter; a string without one is a
\* relative URL without a base and does not parse.  After http: and https:
\* the slashes are skipped and the authority runs to the next slash; an
\* empty host and a port that is not a number do not parse.  After any other
\* scheme an authority is parsed only behind "//", and what follows is a
\* path otherwise.
url_parse(s) ==
    IF s = <<>> \/ FirstColon(s) = 0
          \/ Head(s) \notin AlphaTokens \cup SchemeTokens
    THEN ParseError
    ELSE LET scheme == BeforeColon(s)
             rest == AfterColon(s)
         IN  IF scheme \in SpecialSchemes
             THEN LET auth == UntilSlash(SkipSlashes(rest))
                  IN  IF AuthorityHost(auth) = <<>> \/ ~AuthorityPortOk(auth)
                      THEN ParseError
                      ELSE [ok |-> TRUE, scheme |-> scheme,
                            host |-> AuthorityHost(auth),
                            port |-> AuthorityPort(auth, scheme)]
             ELSE IF Len(rest) >= 2 /\ rest[1] = "/" /\ rest[2] = "/"
             THEN LET auth == UntilSlash(SubSeq(rest, 3, Len(rest)))
                  IN  IF \/ ~AuthorityPortOk(auth)
                         \/ FirstColon(auth) # 0 /\ AuthorityHost(auth) = <<>>
                      THEN ParseError
                      ELSE [ok |-> TRUE, scheme |-> scheme,
                            host |-> AuthorityHost(auth), port |-> 0]
             ELSE [ok |-> TRUE, scheme |-> scheme, host |-> <<>>, port |-> 0]

\* Url::origin(): the (scheme, host, port) triple of an http or https URL;
\* for any other scheme an opaque origin, which carries the next value of a
\* global counter (id) and is equal to no origin made by another call
origin(url, id) ==
    IF url.scheme \in SpecialSchemes
    THEN <<url.scheme, url.host, url.port>>
    ELSE <<<<"opaque">>, id, 0>>

\* ------------------------------------------------------------------------
\* Origin policy

AllowAll == [kind |-> "All", origins |-> {}]

\* expect("AllowedOrigins is not properly formatted") panics: construction
\* is aborted and there is no policy
ExpectPanic == [kind |-> "Panic", origins |-> {}]

AllowedOrigins_new_skipping(strings) ==
    [kind |-> "Only",
     origins |-> {origin(url_parse(s), <<"new">> \o s) :
                     s \in {x \in strings : url_parse(x).ok}}]

\* AllowedOrigins::new: every string is parsed (a string that does not parse
\* aborts construction) and its origin kept; the opaque origin made for a
\* string is named after the string
AllowedOrigins_new(strings) ==
    IF \E s \in strings : ~url_parse(s).ok THEN ExpectPanic
    ELSE [kind |-> "Only",
          origins |-> {origin(url_parse(s), <<"new">> \o s) : s \in strings}]

is_allowed_ignoring_port(allowed_origins, url) ==
    IF allowed_origins.kind = "All" THEN TRUE
    ELSE LET origin_ == origin(url, <<"is_allowed">>)
         IN  \E allowed \in allowed_origins.origins :
                 allowed[1] = origin_[1] /\ allowed[2] = origin_[2]

\* is_allowed: url.origin() is made by this call
is_allowed(allowed_origins, url) ==
    IF allowed_origins.kind = "All" THEN TRUE
    ELSE LET origin_ == origin(url, <<"is_allowed">>)
         IN  \E allowed \in allowed_origins.origins : allowed = origin_

\* ------------------------------------------------------------------------
\* URI builder

SchemePrefix(secure) ==
    IF secure THEN <<"https:", "/", "/">> ELSE <<"http:", "/", "/">>

make_uri(self, path) == path_join(SchemePrefix(self.secure), path)

get_meta_path_with_extension(path) ==
    IF path # <<>> /\ path[Len(path)] = ".png"
    THEN SubSeq(path, 1, Len(path) - 1) \o <<".meta">>
    ELSE path \o <<".meta">>

\* crate::io::get_meta_path: the sidecar path is the path with ".meta"
\* appended
get_meta_path(path) == path \o <<".meta">>

make_meta_uri(self, path) ==
    LET meta_path == get_meta_path(path)
    IN  make_uri(self, meta_path)

\* ------------------------------------------------------------------------
\* Results of a request (Result<Box<dyn Reader>, AssetReaderError>)

NoResult ==
    [kind |-> "None", data |-> <<>>, code |-> 0, path |-> <<>>, msg |-> <<>>,
     cause |-> "none", flag |-> FALSE]

\* Ok(flag) of a Result<bool, AssetReaderError>
OkBool(flag) == [NoResult EXCEPT !.kind = "Bool", !.flag = flag]

Success(data) == [NoResult EXCEPT !.kind = "Success", !.data = data]

\* Ok(()) of save_to_cache and Ok(None) of try_load_from_cache
OkUnit == [NoResult EXCEPT !.kind = "OkUnit"]

OkNone == [NoResult EXCEPT !.kind = "OkNone"]

NotFound(path) == [NoResult EXCEPT !.kind = "NotFound", !.path = path]

HttpError(code) == [NoResult EXCEPT !.kind = "HttpError", !.code = code]

\* AssetReaderError::Io; cause names the place the error comes from
Io(msg, cause) == [NoResult EXCEPT !.kind = "Io", !.msg = msg, !.cause = cause]

\* io::Error converted by `?` (From<io::Error>): the message is the
\* operating system's or the client's, it does not name the path
IoFromError(cause) == Io(<<"<io error>">>, cause)

non_utf8_error(path) == Io(<<"non-utf8 path: ">> \o display(path), "non_utf8")

transport_error(path) ==
    Io(<<"unexpected error while loading asset ">> \o display(path)
           \o <<": ", "<err>">>,
       "transport")

status_branch_all_http_error(code, path) == HttpError(code)

\* Err(ureq::Error::StatusCode(code))
status_branch(code, path) ==
    IF code = 404 THEN NotFound(path) ELSE HttpError(code)

\* ------------------------------------------------------------------------
\* The disk cache (mod http_asset_cache): one file per URL, named by the
\* URL's hash.  DefaultHasher is modelled as free of collisions on the URLs
\* of the model: the file name is the URL tagged as a hash.

url_to_hash(url) == <<"hash:">> \o url

NoFiles == [f \in {} |-> <<>>]

\* cache_path.exists()
cache_path_exists(files, url) == url_to_hash(url) \in DOMAIN files

\* the files after `content` is put in the file of `url`
WithFile(files, url, content) ==
    [f \in DOMAIN files \cup {url_to_hash(url)} |->
        IF f = url_to_hash(url) THEN content ELSE files[f]]

\* a file's content after the first n bytes of data are written at its start
\* (File::create leaves the writer at offset 0 of the file)
Overwritten(content, data, n) ==
    SubSeq(data, 1, n) \o SubSeq(content, n + 1, Len(content))

\* ------------------------------------------------------------------------
\* The server and the HTTP client

Bodies == {<<1>>, <<2, 3>>}

TransportFailure ==
    [kind |-> "transport", status |-> 0, body |-> <<>>, body_ok |-> FALSE,
     location |-> <<>>]

Response(status, body, body_ok) ==
    [kind |-> "response", status |-> status, body |-> body,
     body_ok |-> body_ok, location |-> <<>>]

\* a response with a Location header
Redirect(status, location) ==
    [Response(status, <<>>, TRUE) EXCEPT !.location = location]

\* what the network gives for one request: no response at all (connection,
\* DNS or protocol failure), or a response with a status and a body whose
\* reading succeeds or breaks off: 200 with a body, 304 and the error
\* statuses 404 and 500 with an empty one
ServerAnswers ==
    {TransportFailure}
    \cup {Response(200, body, TRUE) : body \in Bodies}
    \cup {Response(200, <<2, 3>>, FALSE)}
    \cup {Response(status, <<>>, TRUE) : status \in {304, 404, 500}}

\* where the servers of the model redirect to: http://b.com/x and /y
Locations == {<<"http:", "/", "/", "b.com", "/", "x">>, <<"/", "y">>}

\* what the network gives for the requests of one call, in their order: one
\* answer, or a 302 with a Location and the answer to the request that
\* follows it, a 200 with a body, or a 302 without a Location
Exchanges ==
    {<<answer>> : answer \in ServerAnswers}
    \cup {<<Redirect(302, <<>>)>>}
    \cup {<<Redirect(302, location), Response(200, <<1>>, TRUE)>> :
             location \in Locations}

\* the same for the build with the feature http_source_cache, whose servers
\* send no Location and no 304
CachedExchanges ==
    {<<answer>> : answer \in {a \in ServerAnswers : a.status # 304}}
    \cup {<<Redirect(302, <<>>)>>}

\* the redirects a call follows (the default of the agent's configuration)
max_redirects == 10

\* Ok(response), Err(ureq::Error::StatusCode(code)) and every other Err(_),
\* with the URI of the last request that was sent (none when the client
\* refused the URI)
CallOk(uri, answer) == [kind |-> "Ok", response |-> answer, uri |-> uri]

CallStatusCode(uri, answer) ==
    [kind |-> "StatusCode", response |-> answer, uri |-> uri]

CallErr(uri) == [kind |-> "Err", response |-> TransportFailure, uri |-> uri]

\* scheme and authority of a URI: http://a.com of http://a.com/x
UriAuthority(uri) ==
    SubSeq(uri, 1, 3) \o UntilSlash(SubSeq(uri, 4, Len(uri)))

\* the position of the last slash of s, 0 when it has none
RECURSIVE LastSlash(_)
LastSlash(s) ==
    IF s = <<>> THEN 0
    ELSE IF s[Len(s)] = "/" THEN Len(s)
    ELSE LastSlash(SubSeq(s, 1, Len(s) - 1))

\* a URI up to the last slash of its path: http://a.com/ of http://a.com/x
UriDirectory(uri) ==
    LET path == SubSeq(uri, Len(UriAuthority(uri)) + 1, Len(uri))
    IN  UriAuthority(uri)
            \o (IF LastSlash(path) = 0 THEN <<"/">>
                ELSE SubSeq(path, 1, LastSlash(path)))

\* the colons of s
RECURSIVE Colons(_)
Colons(s) ==
    IF s = <<>> THEN 0
    ELSE (IF Head(s) \in SchemeTokens \cup PortTokens THEN 1 ELSE 0)
             + Colons(Tail(s))

\* the URIs the client sends a request for: http:// or https://, then an
\* authority that is not empty, runs to the next slash and has one colon
\* at most; what follows the colon need not be a number (http::Uri takes
\* http://a.com:8443x, with no port), and a URI without a scheme or
\* without a host is refused
uri_parse(uri) ==
    /\ \E scheme \in SchemeTokens : StartsWith(uri, <<scheme, "/", "/">>)
    /\ LET authority == UntilSlash(SubSeq(uri, 4, Len(uri)))
       IN  authority # <<>> /\ Colons(authority) <= 1

\* the URI a redirect leads to: the Location when the client takes it as a
\* URI of its own (http:// or https:// and an authority that http::Uri
\* parses), and the Location resolved against the URI of the request as a
\* relative reference otherwise, from the root when it begins with a slash
\* and from the directory of the request's path when it does not (http:/y,
\* http:///x, b.com/x)
resolve(uri, location) ==
    IF uri_parse(location) THEN location
    ELSE IF is_absolute(location) THEN UriAuthority(uri) \o location
    ELSE UriDirectory(uri) \o location

\* the requests of one call: a URI that is no http(s) URI with a host is
\* refused by the client without a request; a 3xx response other than 304
\* is a redirect, followed with a request to the URI its Location leads to,
\* an error without one; ureq considers all >=400 status codes as errors
RECURSIVE run(_, _, _)
run(uri, answers, redirects) ==
    LET answer == Head(answers)
    IN  IF ~uri_parse(uri) THEN CallErr(<<>>)
        ELSE IF answer.kind = "transport"
        THEN CallErr(uri)
        ELSE IF answer.status \in 300..399 /\ answer.status # 304
        THEN IF answer.location = <<>> \/ redirects >= max_redirects
             THEN CallErr(uri)
             ELSE run(resolve(uri, answer.location), Tail(answers),
                      redirects + 1)
        ELSE IF answer.status >= 400 THEN CallStatusCode(uri, answer)
        ELSE CallOk(uri, answer)

\* AGENT.get(uri).call()
call(uri, answers) == run(uri, answers, 0)

\* ------------------------------------------------------------------------
\* Inputs

\* the paths given to read: a.com/x, a.com:8443/x, https://a.com/x,
\* https://b.com/x, /x and a path that is not UTF-8
Paths ==
    { <<"a.com", "/", "x">>,
      <<"a.com", ":8443", "/", "x">>,
      <<"https:", "/", "/", "a.com", "/", "x">>,
      <<"https:", "/", "/", "b.com", "/", "x">>,
      <<"/", "x">>,
      <<"a.com", "/", "<FF>">> }

\* the paths given to read_meta: a.com/x.png, https://b.com/x, /x
MetaPaths ==
    { <<"a.com", "/", "x", ".png">>,
      <<"https:", "/", "/", "b.com", "/", "x">>,
      <<"/", "x">> }

\* the paths given to is_directory and read_directory: a.com/x and
\* https://b.com/x
DirPaths ==
    { <<"a.com", "/", "x">>,
      <<"https:", "/", "/", "b.com", "/", "x">> }

\* the paths given to a reader of the build with the feature
\* http_source_cache: a.com/x and https://a.com/x to read, https://b.com/x
\* to read_meta
CachedPaths ==
    { <<"a.com", "/", "x">>,
      <<"https:", "/", "/", "a.com", "/", "x">> }

CachedMetaPaths == { <<"https:", "/", "/", "b.com", "/", "x">> }

Policies == {AllowAll, AllowedOrigins_new({<<"https:", "/", "/", "a.com">>})}

\* ------------------------------------------------------------------------
\* State

VARIABLES
    reader,         \* the HttpSourceAssetReader: secure, allowed_origins
    cache_enabled,  \* the http_source_cache feature
    cache,          \* the files of .http-asset-cache: file name -> bytes
    task,           \* the requests: one record per task of the executor
    started,        \* number of requests started
    served,         \* the <<uri, body>> of the response bodies read to the end
    source,         \* the asset source the reader is registered under
    probe,          \* the last direct call of a function, and its answer
    writers,        \* the <<uri, bytes>> of the file writers still running
    creators        \* the URIs of the File::create calls still running
                    \* whose futures were dropped

vars ==
    <<reader, cache_enabled, cache, task, started, served, source, probe,
      writers, creators>>

\* A request: where it stands (pc), its operation and path, the URI given to
\* get, the response's status, whether a body was read to the end (fetched)
\* into buffer, and its result.  looked_up: the cache was looked up;
\* used_net: a network request was issued; prior: the bytes that completed
\* requests for the same URI had returned when this one started;
\* concurrent: another request for the same URI was in flight with this one;
\* gated: is_allowed was evaluated for this request; had_entry: the cache
\* held a file for the URI when get was called; worker: the blocking call of
\* the request on its worker thread ("none", "running", "finished");
\* sent_to: the URI of the last request the client sent for it.
IdleTask ==
    [pc |-> "idle", op |-> "none", path |-> <<>>, uri |-> <<>>, status |-> 0,
     fetched |-> FALSE, buffer |-> <<>>, looked_up |-> FALSE,
     used_net |-> FALSE, prior |-> {}, concurrent |-> FALSE,
     gated |-> FALSE, had_entry |-> FALSE, worker |-> "none",
     sent_to |-> <<>>, result |-> NoResult]

\* no function was called directly
NoProbe == [fn |-> "none"]

\* where a request that has not ended stands: at one of the awaits of get
\* (File::open and read_to_end of try_load_from_cache, before the file is
\* read and after, the blocking call, create_dir_all, File::create and
\* write_all of save_to_cache), or reading the body of the response
AwaitPoints ==
    {"cache_open", "cache_read", "cache_return", "net_call",
     "save_mkdir", "save_create", "save_write"}

InFlight == AwaitPoints \cup {"body_read"}

\* the files .http-asset-cache can hold when the program starts: none, or
\* the file an earlier run of the program saved for http(s)://a.com/x
LeftFiles(self) ==
    {NoFiles, WithFile(NoFiles, make_uri(self, <<"a.com", "/", "x">>), <<1>>)}

\* the bodies that the files came from
LeftServed(files) ==
    {<<SubSeq(f, 2, Len(f)), files[f]>> : f \in DOMAIN files}

\* a reader of the build without the feature http_source_cache
Init ==
    /\ reader \in [secure : BOOLEAN, allowed_origins : Policies]
    /\ cache_enabled = FALSE
    /\ cache = NoFiles
    /\ task = [t \in Tasks |-> IdleTask]
    /\ started = 0
    /\ served = {}
    /\ source = "direct"
    /\ probe = NoProbe
    /\ writers = {}
    /\ creators = {}

\* a reader of the build with the feature http_source_cache
InitHttpSourceCache ==
    /\ reader \in [secure : BOOLEAN, allowed_origins : Policies]
    /\ cache_enabled = TRUE
    /\ cache \in LeftFiles(reader)
    /\ task = [t \in Tasks |-> IdleTask]
    /\ started = 0
    /\ served = LeftServed(cache)
    /\ source = "direct"
    /\ probe = NoProbe
    /\ writers = {}
    /\ creators = {}

\* the request of task t returns res to its caller
Return(t, res) == task' = [task EXCEPT ![t].pc = "done", ![t].result = res]

\* ------------------------------------------------------------------------
\* Operations

\* Url::parse(path.to_str().unwrap_or_default()).ok() gives a URL and the
\* policy does not allow it
PolicyDenies(path) ==
    LET url == url_parse(to_str_or_default(path))
    IN  url.ok /\ ~is_allowed(reader.allowed_origins, url)

\* a new request
NewRequest(op, path) == [IdleTask EXCEPT !.op = op, !.path = path]

\* the request: Url::parse(..).ok() is evaluated; is_allowed is, when it
\* gives a URL
Checked(req) ==
    [req EXCEPT !.gated = url_parse(to_str_or_default(req.path)).ok]

\* a task has no request, or one that has ended and whose blocking call is
\* not running
Free(t) ==
    /\ task[t].pc \in {"idle", "done", "panicked", "cancelled"}
    /\ task[t].worker # "running"

\* a request is made by the first task that is free
CanStart(t) ==
    /\ started < MaxRequests
    /\ Free(t)
    /\ \A u \in Tasks : u < t => ~Free(u)

\* todo!(""): the task panics, the caller gets no result
Todo(t, req) ==
    /\ task' = [task EXCEPT ![t] = [req EXCEPT !.pc = "panicked"]]
    /\ UNCHANGED cache

\* the bytes returned by the completed requests for uri that no other request
\* for uri was in flight with
PriorBytes(uri) ==
    {task[u].result.data : u \in
        {v \in Tasks : /\ task[v].pc = "done"
                       /\ task[v].uri = uri
                       /\ task[v].result.kind = "Success"
                       /\ ~task[v].concurrent}}

\* get(path), up to its first await: the UTF-8 check, the cache lookup's
\* exists() and, on a miss, the request handed to the blocking thread
get(t, req, path) ==
    LET others == {u \in Tasks \ {t} :
                      task[u].pc \in InFlight /\ task[u].uri = path}
        r == [req EXCEPT !.uri = path, !.prior = PriorBytes(path),
                         !.concurrent = (others # {}),
                         !.had_entry = (url_to_hash(path) \in DOMAIN cache)]
        hit == cache_enabled /\ cache_path_exists(cache, path)
        begun == IF hit
                 THEN [r EXCEPT !.pc = "cache_open", !.looked_up = TRUE]
                 ELSE [r EXCEPT !.pc = "net_call",
                                !.looked_up = cache_enabled,
                                !.used_net = TRUE,
                                !.worker = "running"]
    IN  /\ UNCHANGED cache
        /\ IF ~is_utf8(path)
           THEN task' = [task EXCEPT ![t] =
                            [r EXCEPT !.pc = "done", !.concurrent = FALSE,
                                      !.result = non_utf8_error(path)]]
           ELSE task' = [u \in Tasks |->
                            IF u = t THEN begun
                            ELSE IF u \in others
                            THEN [task[u] EXCEPT !.concurrent = TRUE]
                            ELSE task[u]]

read(t, path) ==
    /\ CanStart(t)
    /\ started' = started + 1
    /\ UNCHANGED <<reader, cache_enabled, served, source, probe, writers,
                   creators>>
    /\ IF PolicyDenies(path)
       THEN Todo(t, Checked(NewRequest("read", path)))
       ELSE get(t, Checked(NewRequest("read", path)), make_uri(reader, path))

read_meta(t, path) ==
    /\ CanStart(t)
    /\ started' = started + 1
    /\ UNCHANGED <<reader, cache_enabled, served, source, probe, writers,
                   creators>>
    /\ IF PolicyDenies(path)
       THEN Todo(t, Checked(NewRequest("read_meta", path)))
       ELSE LET uri == make_meta_uri(reader, path)
            IN  get(t, Checked(NewRequest("read_meta", path)), uri)

try_load_from_cache_open_or_fetch(t, ok) ==
    /\ task[t].pc = "cache_open"
    /\ IF ok
       THEN task' = [task EXCEPT ![t].pc = "cache_read"]
       ELSE task' = [task EXCEPT ![t].pc = "net_call",
                                ![t].used_net = TRUE,
                                ![t].worker = "running"]
    /\ UNCHANGED <<reader, cache_enabled, cache, started, served, source,
                   probe, writers, creators>>

\* try_load_from_cache when the file exists: File::open(&cache_path).await?
\* opens the file, or fails
try_load_from_cache_open(t, ok) ==
    /\ task[t].pc = "cache_open"
    /\ IF ok
       THEN task' = [task EXCEPT ![t].pc = "cache_read"]
       ELSE Return(t, IoFromError("cache_read"))
    /\ UNCHANGED <<reader, cache_enabled, cache, started, served, source,
                   probe, writers, creators>>

try_load_from_cache_read_no_bytes(t, ok) ==
    /\ task[t].pc = "cache_read"
    /\ IF ok
       THEN task' = [task EXCEPT ![t].pc = "cache_return",
                                ![t].buffer = <<>>]
       ELSE Return(t, IoFromError("cache_read"))
    /\ UNCHANGED <<reader, cache_enabled, cache, started, served, source,
                   probe, writers, creators>>

\* try_load_from_cache: the read of file.read_to_end(&mut buffer).await?
\* runs on a thread of the blocking pool and takes the bytes the file holds
\* then into buffer, or fails; the task is resumed with the bytes later
try_load_from_cache_read(t, ok) ==
    /\ task[t].pc = "cache_read"
    /\ IF ok
       THEN task' = [task EXCEPT
                       ![t].pc = "cache_return",
                       ![t].buffer = cache[url_to_hash(task[t].uri)]]
       ELSE Return(t, IoFromError("cache_read"))
    /\ UNCHANGED <<reader, cache_enabled, cache, started, served, source,
                   probe, writers, creators>>

\* try_load_from_cache: the task is resumed after read_to_end and returns
\* Ok(Some(buffer)), the bytes that were read
try_load_from_cache_return(t) ==
    /\ task[t].pc = "cache_return"
    /\ Return(t, Success(task[t].buffer))
    /\ UNCHANGED <<reader, cache_enabled, cache, started, served, source,
                   probe, writers, creators>>

get_response_caching_errors(t, answers) ==
    /\ task[t].pc = "net_call"
    /\ UNCHANGED <<reader, cache_enabled, started, served, source, probe,
                   writers, creators>>
    /\ LET response == call(task[t].uri, answers)
           got == [task EXCEPT ![t].status = response.response.status,
                               ![t].sent_to = response.uri,
                               ![t].worker = "finished"]
       IN  IF response.kind = "Err"
           THEN /\ UNCHANGED cache
                /\ task' = [task EXCEPT
                               ![t].pc = "done",
                               ![t].worker = "finished",
                               ![t].sent_to = response.uri,
                               ![t].result = transport_error(task[t].uri)]
           ELSE IF response.kind = "StatusCode"
           THEN /\ cache' = IF cache_enabled
                            THEN WithFile(cache, task[t].uri, <<>>)
                            ELSE cache
                /\ task' = [got EXCEPT
                               ![t].pc = "done",
                               ![t].result =
                                   status_branch(response.response.status,
                                                 task[t].uri)]
           ELSE /\ UNCHANGED cache
                /\ task' = [got EXCEPT ![t].pc = "body_read"]

\* the blocking call AGENT.get(uri).call() completes on its worker thread and
\* the task is resumed with its result: an error ends the request, a
\* response is left to be read
get_response(t, answers) ==
    /\ task[t].pc = "net_call"
    /\ UNCHANGED <<reader, cache_enabled, cache, started, served, source,
                   probe, writers, creators>>
    /\ LET response == call(task[t].uri, answers)
           got == [task EXCEPT ![t].status = response.response.status,
                               ![t].sent_to = response.uri,
                               ![t].worker = "finished"]
       IN  IF response.kind = "Err"
           THEN task' = [task EXCEPT
                           ![t].pc = "done",
                           ![t].worker = "finished",
                           ![t].sent_to = response.uri,
                           ![t].result = transport_error(task[t].uri)]
           ELSE IF response.kind = "StatusCode"
           THEN task' = [got EXCEPT
                           ![t].pc = "done",
                           ![t].result =
                               status_branch(response.response.status,
                                             task[t].uri)]
           ELSE task' = [got EXCEPT ![t].pc = "body_read"]

\* reader.read_to_end(&mut buffer)?: the resumed task reads the body of the
\* response on the thread of the executor that runs it, to the end or to a
\* failure, and get goes on to its next await
read_to_end(t, answer) ==
    /\ task[t].pc = "body_read"
    /\ answer.kind = "response"
    /\ answer.status = task[t].status
    /\ UNCHANGED <<reader, cache_enabled, cache, started, source, probe,
                   writers, creators>>
    /\ IF ~answer.body_ok
       THEN /\ Return(t, IoFromError("body_read"))
            /\ UNCHANGED served
       ELSE /\ served' = served \cup {<<task[t].uri, answer.body>>}
            /\ IF cache_enabled
               THEN task' = [task EXCEPT ![t].pc = "save_mkdir",
                                        ![t].fetched = TRUE,
                                        ![t].buffer = answer.body]
               ELSE task' = [task EXCEPT ![t].pc = "done",
                                        ![t].fetched = TRUE,
                                        ![t].buffer = answer.body,
                                        ![t].result = Success(answer.body)]

\* save_to_cache: create_dir_all(CACHE_DIR).await.ok(), whose result is
\* dropped
save_to_cache_create_dir_all(t) ==
    /\ task[t].pc = "save_mkdir"
    /\ task' = [task EXCEPT ![t].pc = "save_create"]
    /\ UNCHANGED <<reader, cache_enabled, cache, started, served, source,
                   probe, writers, creators>>

\* save_to_cache: File::create(&cache_path).await? truncates the file, or
\* fails
save_to_cache_create(t, ok) ==
    /\ task[t].pc = "save_create"
    /\ UNCHANGED <<reader, cache_enabled, started, served, source, probe,
                   writers, creators>>
    /\ IF ok
       THEN /\ cache' = WithFile(cache, task[t].uri, <<>>)
            /\ task' = [task EXCEPT ![t].pc = "save_write"]
       ELSE /\ Return(t, IoFromError("cache_write"))
            /\ UNCHANGED cache

\* the files after n bytes of data are written to the file of uri
Written(files, uri, data, n) ==
    WithFile(files, uri, Overwritten(files[url_to_hash(uri)], data, n))

\* the value a call of save_to_cache that returned Ok(()) gives its caller:
\* get goes on to return the buffer, a direct call returns Ok(())
Saved(req) ==
    IF req.op = "save_to_cache" THEN OkUnit ELSE Success(req.buffer)

\* save_to_cache: cache_file.write_all(data).await? hands the bytes to the
\* file's writer, or fails after fewer; then the file is dropped, without a
\* flush, and the call returns.  When write_all has returned Ok, n bytes are
\* in the file as the file is dropped; when none is, the writer may still
\* be running with all of them (pending) or be dropped with them.
save_to_cache_write(t, n, ok, pending) ==
    /\ task[t].pc = "save_write"
    /\ pending => (ok /\ n = 0)
    /\ ~ok => n < Len(task[t].buffer)
    /\ UNCHANGED <<reader, cache_enabled, started, served, source, probe,
                   creators>>
    /\ cache' = Written(cache, task[t].uri, task[t].buffer, n)
    /\ writers' = IF pending
                  THEN writers \cup {<<task[t].uri, task[t].buffer>>}
                  ELSE writers
    /\ IF ok
       THEN Return(t, Saved(task[t]))
       ELSE Return(t, IoFromError("cache_write"))

\* the writer of a file that was dropped while it ran writes the bytes it
\* was given
write_dropped(w) ==
    /\ w \in writers
    /\ writers' = writers \ {w}
    /\ cache' = Written(cache, w[1], w[2], Len(w[2]))
    /\ UNCHANGED <<reader, cache_enabled, task, started, served, source,
                   probe, creators>>

\* is_directory: Ok(false)
is_directory(t, path) ==
    /\ CanStart(t)
    /\ started' = started + 1
    /\ UNCHANGED <<reader, cache_enabled, cache, served, source, probe,
                   writers, creators>>
    /\ task' = [task EXCEPT ![t] =
                    [NewRequest("is_directory", path) EXCEPT
                        !.pc = "done", !.result = OkBool(FALSE)]]

read_directory_gated(t, path) ==
    /\ CanStart(t)
    /\ started' = started + 1
    /\ UNCHANGED <<reader, cache_enabled, served, source, probe, writers,
                   creators>>
    /\ IF PolicyDenies(path)
       THEN Todo(t, Checked(NewRequest("read_directory", path)))
       ELSE /\ UNCHANGED cache
            /\ task' = [task EXCEPT ![t] =
                           [NewRequest("read_directory", path) EXCEPT
                               !.pc = "done",
                               !.result = NotFound(make_uri(reader, path))]]

\* read_directory: Err(AssetReaderError::NotFound(self.make_uri(path)))
read_directory(t, path) ==
    /\ CanStart(t)
    /\ started' = started + 1
    /\ UNCHANGED <<reader, cache_enabled, cache, served, source, probe,
                   writers, creators>>
    /\ task' = [task EXCEPT ![t] =
                    [NewRequest("read_directory", path) EXCEPT
                        !.pc = "done",
                        !.result = NotFound(make_uri(reader, path))]]

\* the task that owns a request is cancelled: the future of read or
\* read_meta is dropped at the await it stands at, and nothing after that
\* await runs; what was done before it stays done.  The blocking call of a
\* fetch, running on its worker thread, is not stopped.  A File::create
\* that was awaited and has started may still be running (creating); of the
\* bytes given to write_all, n are in the file as the file is dropped, and
\* when none is, the writer may still be running with all of them (pending).
cancel(t, creating, n, pending) ==
    /\ task[t].pc \in AwaitPoints
    /\ creating => task[t].pc = "save_create"
    /\ n > 0 => (task[t].pc = "save_write" /\ n <= Len(task[t].buffer))
    /\ pending => (task[t].pc = "save_write" /\ n = 0)
    /\ task' = [task EXCEPT ![t].pc = "cancelled"]
    /\ cache' = IF n > 0
                THEN Written(cache, task[t].uri, task[t].buffer, n)
                ELSE cache
    /\ writers' = IF pending
                  THEN writers \cup {<<task[t].uri, task[t].buffer>>}
                  ELSE writers
    /\ creators' = IF creating
                   THEN creators \cup {task[t].uri}
                   ELSE creators
    /\ UNCHANGED <<reader, cache_enabled, started, served, source, probe>>

\* the File::create of a dropped future runs to its end on its thread of the
\* blocking pool: the file is made, or emptied when there is one, unless
\* the call fails
create_dropped(uri, ok) ==
    /\ uri \in creators
    /\ creators' = creators \ {uri}
    /\ cache' = IF ok THEN WithFile(cache, uri, <<>>) ELSE cache
    /\ UNCHANGED <<reader, cache_enabled, task, started, served, source,
                   probe, writers>>

unblock_dropped_resumed(t, answers) ==
    /\ task[t].pc = "cancelled"
    /\ task[t].worker = "running"
    /\ LET response == call(task[t].uri, answers)
       IN  task' = [task EXCEPT
                       ![t].worker = "finished",
                       ![t].sent_to = response.uri,
                       ![t].status = response.response.status,
                       ![t].pc = IF response.kind = "Ok" THEN "body_read"
                                 ELSE "done",
                       ![t].result =
                           IF response.kind = "Ok" THEN NoResult
                           ELSE IF response.kind = "StatusCode"
                           THEN status_branch(response.response.status,
                                              task[t].uri)
                           ELSE transport_error(task[t].uri)]
    /\ UNCHANGED <<reader, cache_enabled, cache, started, served, source,
                   probe, writers, creators>>

\* the blocking call of a cancelled request runs to completion on its worker
\* thread: the client sends the request, and those of the redirects it
\* follows, as for a request that is awaited.  The output of the call is
\* dropped with the blocking task: no future is left to be resumed with it,
\* and the response is not read.
unblock_dropped(t, answers) ==
    /\ task[t].pc = "cancelled"
    /\ task[t].worker = "running"
    /\ LET response == call(task[t].uri, answers)
       IN  task' = [task EXCEPT ![t].worker = "finished",
                               ![t].sent_to = response.uri]
    /\ UNCHANGED <<reader, cache_enabled, cache, started, served, source,
                   probe, writers, creators>>

\* the steps of the build without the feature http_source_cache
Next ==
    \/ \E t \in Tasks, path \in Paths : read(t, path)
    \/ \E t \in Tasks, path \in MetaPaths : read_meta(t, path)
    \/ \E t \in Tasks, answers \in Exchanges : get_response(t, answers)
    \/ \E t \in Tasks, answer \in ServerAnswers : read_to_end(t, answer)
    \/ \E t \in Tasks, path \in DirPaths : is_directory(t, path)
    \/ \E t \in Tasks, path \in DirPaths : read_directory(t, path)

Spec == Init /\ [][Next]_vars

\* the steps of the build with the feature http_source_cache
NextHttpSourceCache ==
    \/ \E t \in Tasks, path \in CachedPaths : read(t, path)
    \/ \E t \in Tasks, path \in CachedMetaPaths : read_meta(t, path)
    \/ \E t \in Tasks, ok \in BOOLEAN : try_load_from_cache_open(t, ok)
    \/ \E t \in Tasks, ok \in BOOLEAN : try_load_from_cache_read(t, ok)
    \/ \E t \in Tasks : try_load_from_cache_return(t)
    \/ \E t \in Tasks, answers \in CachedExchanges : get_response(t, answers)
    \/ \E t \in Tasks, answer \in ServerAnswers : read_to_end(t, answer)
    \/ \E t \in Tasks : save_to_cache_create_dir_all(t)
    \/ \E t \in Tasks, ok \in BOOLEAN : save_to_cache_create(t, ok)
    \/ \E t \in Tasks, ok \in BOOLEAN, pending \in BOOLEAN :
           \E n \in 0..Len(task[t].buffer) :
               save_to_cache_write(t, n, ok, pending)
    \/ \E w \in writers : write_dropped(w)
    \/ \E t \in Tasks, path \in DirPaths : is_directory(t, path)
    \/ \E t \in Tasks, path \in DirPaths : read_directory(t, path)

SpecHttpSourceCache == InitHttpSourceCache /\ [][NextHttpSourceCache]_vars

\* reads of a.com/x and the read_meta of the build with the feature
\* http_source_cache, with tasks that may be cancelled
NextCancel ==
    \/ \E t \in Tasks : read(t, <<"a.com", "/", "x">>)
    \/ \E t \in Tasks, path \in CachedMetaPaths : read_meta(t, path)
    \/ \E t \in Tasks, ok \in BOOLEAN : try_load_from_cache_open(t, ok)
    \/ \E t \in Tasks, ok \in BOOLEAN : try_load_from_cache_read(t, ok)
    \/ \E t \in Tasks : try_load_from_cache_return(t)
    \/ \E t \in Tasks, answers \in CachedExchanges : get_response(t, answers)
    \/ \E t \in Tasks, answer \in ServerAnswers : read_to_end(t, answer)
    \/ \E t \in Tasks : save_to_cache_create_dir_all(t)
    \/ \E t \in Tasks, ok \in BOOLEAN : save_to_cache_create(t, ok)
    \/ \E t \in Tasks, ok \in BOOLEAN, pending \in BOOLEAN :
           \E n \in 0..Len(task[t].buffer) :
               save_to_cache_write(t, n, ok, pending)
    \/ \E w \in writers : write_dropped(w)
    \/ \E t \in Tasks, creating \in BOOLEAN, pending \in BOOLEAN :
           \E n \in 0..Len(task[t].buffer) : cancel(t, creating, n, pending)
    \/ \E uri \in creators, ok \in BOOLEAN : create_dropped(uri, ok)
    \/ \E t \in Tasks, answers \in Exchanges : unblock_dropped(t, answers)

SpecCancel == InitHttpSourceCache /\ [][NextCancel]_vars

\* ------------------------------------------------------------------------
\* The readers the plugin registers

\* the asset sources HttpSourcePlugin::build registers (features http, https)
SourceIds == {"http", "https"}

\* HttpSourcePlugin::build: the reader (and the processed reader) registered
\* under each source id
HttpSourcePlugin_build(allowed_origins) ==
    [id \in SourceIds |->
        IF id = "http"
        THEN [secure |-> FALSE, allowed_origins |-> allowed_origins]
        ELSE [secure |-> FALSE, allowed_origins |-> allowed_origins]]

\* the reader of one of the sources of an app the plugin was added to
InitPlugin ==
    /\ source \in SourceIds
    /\ reader \in {HttpSourcePlugin_build(allowed_origins)[source] :
                      allowed_origins \in Policies}
    /\ cache_enabled = FALSE
    /\ cache = NoFiles
    /\ task = [t \in Tasks |-> IdleTask]
    /\ started = 0
    /\ served = {}
    /\ probe = NoProbe
    /\ writers = {}
    /\ creators = {}

SpecPlugin == InitPlugin /\ [][Next]_vars

\* ------------------------------------------------------------------------
\* The origin policy, called directly

\* the strings policies are made of: https://a.com, http://a.com,
\* https://a.com:8443, https://b.com and a.com:8443 (a URL of scheme a.com)
OriginStrings ==
    { <<"a.com", ":8443">>,
      <<"https:", "/", "/", "a.com">>,
      <<"http:", "/", "/", "a.com">>,
      <<"https:", "/", "/", "a.com", ":8443">>,
      <<"https:", "/", "/", "b.com">> }

\* strings that are no well-formed URL: a.com (no scheme), https:// (empty
\* host) and https://a.com:8443:8443 (a port that is no number)
MalformedStrings ==
    { <<"a.com">>,
      <<"https:", "/", "/">>,
      <<"https:", "/", "/", "a.com", ":8443", ":8443">> }

\* the URLs asked about: https://a.com/x, https://a.com/y,
\* https://a.com:8443/x, http://a.com/x, https://b.com/x, http://b.com/x,
\* a.com:8443 and a.com:8443/x
Urls ==
    { <<"a.com", ":8443">>,
      <<"a.com", ":8443", "/", "x">>,
      <<"https:", "/", "/", "a.com", "/", "x">>,
      <<"https:", "/", "/", "a.com", "/", "y">>,
      <<"https:", "/", "/", "a.com", ":8443", "/", "x">>,
      <<"http:", "/", "/", "a.com", "/", "x">>,
      <<"https:", "/", "/", "b.com", "/", "x">>,
      <<"http:", "/", "/", "b.com", "/", "x">> }

\* the policy is AllowedOrigins::All until AllowedOrigins::new is called
InitPolicy ==
    /\ probe = [fn |-> "none", all |-> TRUE, strings |-> {}]
    /\ reader = [secure |-> FALSE, allowed_origins |-> AllowAll]
    /\ cache_enabled = FALSE
    /\ cache = NoFiles
    /\ task = [t \in Tasks |-> IdleTask]
    /\ started = 0
    /\ served = {}
    /\ source = "direct"
    /\ writers = {}
    /\ creators = {}

\* AllowedOrigins::new(strings) is called, once, and its policy given to the
\* reader; a panic leaves no policy
AllowedOrigins_new_call(strings) ==
    /\ probe.fn = "none"
    /\ probe' = [fn |-> "new", all |-> FALSE, strings |-> strings]
    /\ reader' = [reader EXCEPT
                     !.allowed_origins = AllowedOrigins_new(strings)]
    /\ UNCHANGED <<cache_enabled, cache, task, started, served, source,
                   writers, creators>>

\* allowed_origins.is_allowed(Url::parse(s)) is called, on a policy that
\* was constructed
is_allowed_call(s) ==
    /\ reader.allowed_origins # ExpectPanic
    /\ url_parse(s).ok
    /\ probe' = [fn |-> "is_allowed", all |-> probe.all,
                 strings |-> probe.strings, url |-> s,
                 allowed |-> is_allowed(reader.allowed_origins, url_parse(s))]
    /\ UNCHANGED <<reader, cache_enabled, cache, task, started, served,
                   source, writers, creators>>

NextPolicy ==
    \/ \E strings \in SUBSET (OriginStrings \cup MalformedStrings) :
           AllowedOrigins_new_call(strings)
    \/ \E s \in Urls : is_allowed_call(s)

SpecPolicy == InitPolicy /\ [][NextPolicy]_vars

\* ------------------------------------------------------------------------
\* The disk cache, called directly: calls of save_to_cache and
\* try_load_from_cache made by the tasks, each returning to the executor at
\* its awaits

\* the URLs saved and loaded: http://a.com/x and http://b.com/x
CacheUrls ==
    { <<"http:", "/", "/", "a.com", "/", "x">>,
      <<"http:", "/", "/", "b.com", "/", "x">> }

\* no call was made: the URLs save_to_cache was called for (saved), and for
\* each the task of the last of these calls (last)
InitCache ==
    /\ probe = [fn |-> "none", saved |-> {}, last |-> [k \in CacheUrls |-> 0]]
    /\ reader = [secure |-> FALSE, allowed_origins |-> AllowAll]
    /\ cache_enabled = TRUE
    /\ cache = NoFiles
    /\ task = [t \in Tasks |-> IdleTask]
    /\ started = 0
    /\ served = {}
    /\ source = "direct"
    /\ writers = {}
    /\ creators = {}

\* the other calls for url that have not returned
OtherCalls(t, url) ==
    {u \in Tasks \ {t} : task[u].pc \in InFlight /\ task[u].uri = url}

\* the tasks after task t begins the call req, which the calls in flight for
\* the same URL are concurrent with
Begun(t, req) ==
    [u \in Tasks |->
        IF u = t
        THEN [req EXCEPT !.concurrent = (OtherCalls(t, req.uri) # {})]
        ELSE IF u \in OtherCalls(t, req.uri)
        THEN [task[u] EXCEPT !.concurrent = TRUE]
        ELSE task[u]]

\* the bytes of the last call of save_to_cache for url, when it has returned
\* Ok(()) and no other call for url was in flight with it
LastSaved(url) ==
    {task[u].buffer : u \in
        {v \in Tasks : /\ v = probe.last[url]
                       /\ task[v].op = "save_to_cache"
                       /\ task[v].uri = url
                       /\ task[v].pc = "done"
                       /\ task[v].result = OkUnit
                       /\ ~task[v].concurrent}}

\* save_to_cache(url, data) is called and runs to its first await,
\* create_dir_all
save_to_cache_call(t, url, data) ==
    /\ CanStart(t)
    /\ started' = started + 1
    /\ task' = Begun(t, [NewRequest("save_to_cache", url) EXCEPT
                            !.pc = "save_mkdir", !.uri = url,
                            !.buffer = data])
    /\ probe' = [probe EXCEPT !.fn = "save_to_cache",
                              !.saved = @ \cup {url},
                              !.last[url] = t]
    /\ UNCHANGED <<reader, cache_enabled, cache, served, source, writers,
                   creators>>

\* try_load_from_cache(url) is called: Ok(None) when cache_path.exists() is
\* false, and on to its first await, File::open, otherwise
try_load_from_cache_call(t, url) ==
    /\ CanStart(t)
    /\ started' = started + 1
    /\ LET req == [NewRequest("try_load_from_cache", url) EXCEPT
                      !.uri = url, !.looked_up = TRUE,
                      !.prior = LastSaved(url),
                      !.had_entry = cache_path_exists(cache, url)]
       IN  IF cache_path_exists(cache, url)
           THEN task' = Begun(t, [req EXCEPT !.pc = "cache_open"])
           ELSE task' = [task EXCEPT ![t] =
                            [req EXCEPT !.pc = "done", !.result = OkNone]]
    /\ probe' = [probe EXCEPT !.fn = "try_load_from_cache"]
    /\ UNCHANGED <<reader, cache_enabled, cache, served, source, writers,
                   creators>>

NextCache ==
    \/ \E t \in Tasks, url \in CacheUrls, data \in Bodies :
           save_to_cache_call(t, url, data)
    \/ \E t \in Tasks, url \in CacheUrls : try_load_from_cache_call(t, url)
    \/ \E t \in Tasks, ok \in BOOLEAN : try_load_from_cache_open(t, ok)
    \/ \E t \in Tasks, ok \in BOOLEAN : try_load_from_cache_read(t, ok)
    \/ \E t \in Tasks : try_load_from_cache_return(t)
    \/ \E t \in Tasks : save_to_cache_create_dir_all(t)
    \/ \E t \in Tasks, ok \in BOOLEAN : save_to_cache_create(t, ok)
    \/ \E t \in Tasks, ok \in BOOLEAN, pending \in BOOLEAN :
           \E n \in 0..Len(task[t].buffer) :
               save_to_cache_write(t, n, ok, pending)
    \/ \E w \in writers : write_dropped(w)

SpecCache == InitCache /\ [][NextCache]_vars

\* ------------------------------------------------------------------------
\* Properties

Done(t) == task[t].pc = "done"

\* the request of task t got past the policy check
Proceeded(t) == task[t].pc \notin {"idle", "panicked"}

ParsesAsUrl(path) == url_parse(to_str_or_default(path)).ok

\* C1, as claimed: for read and read_meta, a request whose path parses as a
\* URL that the origin policy denies completes with an AccessDenied error
\* (it does not panic), and does so without a cache lookup or a network
\* request.
C1_DeniedReturnsAccessDenied ==
    \A t \in Tasks :
        (task[t].pc # "idle" /\ PolicyDenies(task[t].path)) =>
            /\ Done(t)
            /\ task[t].result.kind = "AccessDenied"
            /\ ~task[t].looked_up
            /\ ~task[t].used_net

\* C2, as claimed: under an Allow-Only policy every URL a network request is
\* issued to, the URI given to get and the URL the last request of the call
\* was sent to, has an origin of the allowed set, whatever the shape of the
\* path the request was made with.
C2_NoRequestOutsideAllowedOrigins ==
    reader.allowed_origins.kind = "Only" =>
        \A t \in Tasks :
            /\ (task[t].used_net /\ url_parse(task[t].uri).ok) =>
                  is_allowed(reader.allowed_origins, url_parse(task[t].uri))
            /\ task[t].sent_to # <<>> =>
                  is_allowed(reader.allowed_origins,
                             url_parse(task[t].sent_to))

\* C3, as claimed, with the Io error of a failed read of the cache file let
\* pass: with caching enabled, a request for a URL that an earlier completed
\* request (with no other request for that URL in flight beside it) returned
\* bytes for issues no network request, and it returns the same bytes (or
\* the Io error of a failed read).
C3_SecondReadFromCache ==
    \A t \in Tasks :
        (cache_enabled /\ task[t].prior # {}) =>
            /\ ~task[t].used_net
            /\ Cardinality(task[t].prior) = 1
            /\ Done(t) =>
                \/ /\ task[t].result.kind = "Success"
                   /\ task[t].result.data \in task[t].prior
                \/ task[t].result = IoFromError("cache_read")

\* C4, as claimed: a request that got a 2xx response and read its body
\* returns Success with the fetched bytes, also when writing them to the
\* cache fails.
C4_CacheWriteFailureNotReturned ==
    \A t \in Tasks :
        (Done(t) /\ task[t].fetched /\ task[t].status \in 200..299) =>
            task[t].result = Success(task[t].buffer)

\* C5, as claimed: when the path of a read parses as a URL that the policy
\* allows, the URI given to get (the cache key and the network target) is
\* that URL, so the URL checked and the URL fetched have the same origin.
C5_UrlPathFetchedAsIs ==
    \A t \in Tasks :
        (task[t].op = "read" /\ Proceeded(t) /\ ParsesAsUrl(task[t].path)) =>
            /\ task[t].uri = task[t].path
            /\ url_parse(task[t].uri).ok
            /\ origin(url_parse(task[t].uri), <<"fetched">>)
                   = origin(url_parse(task[t].path), <<"checked">>)

\* C6: a request whose response status is 404 returns NotFound carrying the
\* requested URI, for read and read_meta alike.
C6_Status404IsNotFound ==
    \A t \in Tasks :
        (Done(t) /\ task[t].status = 404) =>
            task[t].result = NotFound(task[t].uri)

C6_Witness ==
    \E t, u \in Tasks :
        /\ Done(t) /\ task[t].op = "read" /\ task[t].status = 404
        /\ task[t].result.kind = "NotFound"
        /\ Done(u) /\ task[u].op = "read_meta" /\ task[u].status = 404
        /\ task[u].result.kind = "NotFound"

\* C7, as claimed: every response status that is not 2xx and not 404 gives
\* HttpError with that status, and Success is returned for 2xx responses
\* only.
C7_Non2xxIsHttpError ==
    \A t \in Tasks :
        (Done(t) /\ task[t].used_net /\ task[t].status # 0) =>
            /\ (task[t].status \notin 200..299 /\ task[t].status # 404) =>
                    task[t].result = HttpError(task[t].status)
            /\ task[t].result.kind = "Success" => task[t].status \in 200..299

\* C8, as claimed: a connection, DNS or protocol failure, or a path that is
\* not UTF-8, gives an Io error whose message includes the path of the
\* request; for a path that is not UTF-8 neither the cache is looked up nor
\* a network request issued.
C8_TransportErrorNamesPath ==
    \A t \in Tasks :
        (Done(t) /\ task[t].result.cause \in
                        {"transport", "body_read", "non_utf8"}) =>
            /\ task[t].result.kind = "Io"
            /\ Contains(task[t].result.msg, display(task[t].path))
            /\ task[t].result.cause = "non_utf8" =>
                    (~task[t].looked_up /\ ~task[t].used_net)

\* C9, as claimed: for every path, make_uri gives the scheme prefix of the
\* reader's secure flag followed by the path, unchanged.
C9_MakeUriIsPrefixThenPath ==
    \A t \in Tasks :
        (task[t].op = "read" /\ Proceeded(t)) =>
            task[t].uri = SchemePrefix(reader.secure) \o task[t].path

\* C10: make_meta_uri(p) is make_uri(p + ".meta"): the URI of read_meta ends
\* with the whole path and ".meta" directly after it, with or without an
\* extension; before the path stands the prefix of the reader's secure flag,
\* https:// or http://, and nothing at all when the path begins with a
\* slash, as for make_uri.
C10_MetaUriIsUriOfPathThenSuffix ==
    \A t \in Tasks :
        (task[t].op = "read_meta" /\ Proceeded(t)) =>
            /\ EndsWith(task[t].uri, task[t].path \o <<".meta">>)
            /\ ~is_absolute(task[t].path) =>
                    task[t].uri =
                        (IF reader.secure THEN <<"https:", "/", "/">>
                         ELSE <<"http:", "/", "/">>)
                            \o task[t].path \o <<".meta">>
            /\ is_absolute(task[t].path) =>
                    task[t].uri = task[t].path \o <<".meta">>

C10_Witness ==
    \E t, u \in Tasks :
        /\ reader.secure
        /\ task[t].op = "read_meta"
        /\ task[t].uri = <<"https:", "/", "/", "https:", "/", "/", "b.com",
                           "/", "x", ".meta">>
        /\ task[u].op = "read_meta"
        /\ task[u].uri =
               <<"https:", "/", "/", "a.com", "/", "x", ".png", ".meta">>

\* C11: is_allowed is true for every URL under Allow-All; under Allow-Only
\* it is true exactly when the URL has an origin triple (it is an http or
\* https URL) and its scheme, host and port are those of some string the
\* policy was made of.  With the policy made of "https://a.com",
\* https://a.com/x is allowed, https://a.com:8443/x and http://a.com/x are
\* not.
C11_AllowedIffOriginInSet ==
    probe.fn = "is_allowed" =>
        LET url == url_parse(probe.url)
            same(s) == /\ url.scheme \in {<<"http">>, <<"https">>}
                       /\ url_parse(s).scheme = url.scheme
                       /\ url_parse(s).host = url.host
                       /\ url_parse(s).port = url.port
        IN  /\ probe.all => probe.allowed
            /\ ~probe.all => (probe.allowed <=> \E s \in probe.strings : same(s))
            /\ (~probe.all /\ probe.strings = {<<"https:", "/", "/", "a.com">>}) =>
                  /\ probe.url = <<"https:", "/", "/", "a.com", "/", "x">>
                        => probe.allowed
                  /\ probe.url = <<"https:", "/", "/", "a.com", ":8443", "/", "x">>
                        => ~probe.allowed
                  /\ probe.url = <<"http:", "/", "/", "a.com", "/", "x">>
                        => ~probe.allowed

C11_Witness ==
    /\ probe.fn = "is_allowed"
    /\ ~probe.all
    /\ probe.strings = {<<"https:", "/", "/", "a.com">>}
    /\ probe.url = <<"https:", "/", "/", "a.com", ":8443", "/", "x">>
    /\ ~probe.allowed

\* C12, as claimed, with the error of a failed read of the file let pass: a
\* call of try_load_from_cache(k) that no other call for k was in flight
\* with returns None when save_to_cache was never called for k; when the
\* most recent save of k had returned Ok before it began, it returns the
\* bytes of that save (or the error of a failed read); calls for other URLs
\* in between change nothing of this.
C12_LoadReturnsLastSaveOrError ==
    [][\A t \in Tasks :
          (/\ task'[t] # task[t]
           /\ task'[t].op = "try_load_from_cache"
           /\ task'[t].pc = "done"
           /\ ~task'[t].concurrent) =>
              /\ task'[t].uri \notin probe.saved =>
                    task'[t].result = OkNone
              /\ task'[t].prior # {} =>
                    \/ task'[t].result \in
                          {Success(data) : data \in task'[t].prior}
                    \/ task'[t].result = IoFromError("cache_read")]_vars

\* C13: is_directory returns false and read_directory fails with NotFound,
\* for every path, whatever the policy, the cache and the earlier requests
\* are; neither looks the cache up nor issues a network request.
C13_DirectoryOpsAreFixed ==
    \A t \in Tasks :
        /\ task[t].op = "is_directory" =>
              /\ Done(t)
              /\ task[t].result = OkBool(FALSE)
        /\ task[t].op = "read_directory" =>
              /\ Done(t)
              /\ task[t].result = NotFound(make_uri(reader, task[t].path))
        /\ task[t].op \in {"is_directory", "read_directory"} =>
              /\ ~task[t].gated
              /\ ~task[t].looked_up
              /\ ~task[t].used_net
              /\ task[t].worker = "none"

C13_Witness ==
    \E t \in Tasks :
        /\ task[t].op = "read_directory"
        /\ task[t].path = <<"https:", "/", "/", "b.com", "/", "x">>
        /\ PolicyDenies(task[t].path)
        /\ task[t].result.kind = "NotFound"
        /\ cache # NoFiles

\* the request of task t is a read or read_meta that reached get with the
\* cache enabled and a file for its URI in the cache
FoundEntry(t) ==
    /\ task[t].op \in {"read", "read_meta"}
    /\ Proceeded(t)
    /\ task[t].pc # "cancelled"
    /\ cache_enabled
    /\ task[t].had_entry

\* C14, as claimed: with the cache enabled, a request whose resolved URL has
\* a cache entry returns the cached bytes, issues no network request and has
\* no access control evaluated for it.
C14_EntryGivesCachedBytes ==
    \A t \in Tasks :
        FoundEntry(t) =>
            /\ ~task[t].used_net
            /\ ~task[t].gated
            /\ Done(t) => task[t].result.kind = "Success"
            /\ (Done(t) /\ ~task[t].concurrent) =>
                   task[t].result.data = cache[url_to_hash(task[t].uri)]

\* C14, amended: the policy is evaluated first, for every request whose path
\* parses as a URL; a request it does not deny whose resolved URL has a
\* cache entry issues no network request; its read of the file takes the
\* bytes the file holds then, and it returns those bytes, or an Io error
\* when opening or reading the file fails.
C14_EntryGivesCachedBytesOrIo ==
    [][\A t \in Tasks :
          FoundEntry(t)' =>
              /\ ~task'[t].used_net
              /\ task'[t].gated = ParsesAsUrl(task'[t].path)
              /\ ~PolicyDenies(task'[t].path)
              /\ task'[t].looked_up
              /\ (task[t].pc = "cache_read" /\ task'[t].pc = "cache_return")
                    => task'[t].buffer = cache[url_to_hash(task'[t].uri)]
              /\ (task[t].pc # "done" /\ task'[t].pc = "done") =>
                    \/ /\ task[t].pc = "cache_return"
                       /\ task'[t].result = Success(task[t].buffer)
                    \/ task'[t].result = IoFromError("cache_read")]_vars

C14_Witness ==
    \E t \in Tasks :
        /\ FoundEntry(t)
        /\ reader.allowed_origins.kind = "Only"
        /\ task[t].gated
        /\ Done(t)
        /\ task[t].result = Success(<<2, 3>>)

\* C15, as claimed: a reader registered under "https" resolves relative paths
\* to https:// URLs, one registered under "http" to http:// URLs, and no
\* request made through the "https" source goes to the network over http.
C15_SecureSourceUsesHttps ==
    \A t \in Tasks :
        /\ (task[t].op \in {"read", "read_meta"} /\ Proceeded(t)
                /\ ~is_absolute(task[t].path)) =>
              task[t].uri =
                  SchemePrefix(source = "https")
                      \o (IF task[t].op = "read_meta"
                          THEN get_meta_path(task[t].path)
                          ELSE task[t].path)
        /\ (source = "https" /\ task[t].used_net
                /\ url_parse(task[t].uri).ok) =>
              StartsWith(task[t].uri, <<"https:", "/", "/">>)

\* C16, as claimed: when two requests for the same URL both miss the cache,
\* both fetch and both save, then, once both have returned, the cache file
\* holds exactly the complete body one of them wrote, never a mixture of the
\* two or a truncation.
C16_FileIsOneWritersBody ==
    \A t, u \in Tasks :
        (/\ t # u
         /\ cache_enabled
         /\ task[t].uri = task[u].uri
         /\ Done(t) /\ task[t].fetched /\ task[t].result.kind = "Success"
         /\ Done(u) /\ task[u].fetched /\ task[u].result.kind = "Success") =>
            cache[url_to_hash(task[t].uri)] \in
                {task[t].buffer, task[u].buffer}

\* C17, as claimed: under every interleaving, a read or read_meta that has
\* returned has returned an error, or a buffer equal to a complete response
\* body received for its URL; a request that finds the cache file while
\* another request is still writing it does not return the empty or the
\* truncated content of the file.
C17_ReturnsErrorOrFullBody ==
    \A t \in Tasks :
        (task[t].op \in {"read", "read_meta"} /\ Done(t)) =>
            \/ task[t].result.kind \in {"NotFound", "HttpError", "Io"}
            \/ /\ task[t].result.kind = "Success"
               /\ <<task[t].uri, task[t].result.data>> \in served

\* C18, as claimed: all blocking network I/O of a fetch, the sending of the
\* request and the reading of the response body to its end, runs on a
\* worker thread while the task that issued it is suspended: the thread of
\* the executor never does it.
C18_NetworkIOOnWorkerThread ==
    \A t \in Tasks :
        task[t].pc \in {"net_call", "body_read"} => task[t].worker = "running"

\* C19, as claimed: with the cache enabled, when a read or read_meta of a URL
\* returns bytes, the cache holds an entry for the URL with the bytes
\* returned; and an entry of the cache is never removed.
C19_EntryCreatedAndKept ==
    [][/\ \A t \in Tasks :
            (/\ cache_enabled
             /\ task[t].pc # "done"
             /\ task'[t].pc = "done"
             /\ task'[t].result.kind = "Success") =>
                /\ url_to_hash(task'[t].uri) \in DOMAIN cache'
                /\ cache'[url_to_hash(task'[t].uri)] = task'[t].result.data
       /\ DOMAIN cache \subseteq DOMAIN cache']_vars

\* C20: when the task that owns a request is cancelled while the blocking
\* call of its fetch is in flight, the call may still run to its end on the
\* worker thread, and its output is dropped.  In every step after the
\* cancellation: the request stays cancelled, with no result, no body read
\* and no status, until the task is given a new request, which it is not
\* while the call runs; a step that changes the record of the request (the
\* end of the blocking call) changes no file of the cache, reads no body and
\* starts no writer; and whenever the file of the request's URI is created
\* or changed, it is by another request for that URI that stands in
\* save_to_cache, or by the File::create or the writer such a request left.
C20_CancelledFetchIsDiscarded ==
    [][\A t \in Tasks :
          (task[t].pc = "cancelled" /\ task[t].used_net /\ ~task[t].fetched)
          =>
              /\ (started' = started \/ task[t].worker = "running") =>
                    /\ task'[t].pc = "cancelled"
                    /\ task'[t].result = NoResult
                    /\ ~task'[t].fetched
                    /\ task'[t].buffer = <<>>
                    /\ task'[t].status = 0
              /\ (task'[t] # task[t] /\ started' = started) =>
                    /\ cache' = cache
                    /\ served' = served
                    /\ writers' = writers
                    /\ creators' = creators
              /\ LET file == url_to_hash(task[t].uri)
                 IN  (/\ file \in DOMAIN cache'
                      /\ file \in DOMAIN cache => cache'[file] # cache[file])
                     =>
                         \/ \E u \in Tasks \ {t} :
                                /\ task[u].uri = task[t].uri
                                /\ task[u].pc \in {"save_create", "save_write"}
                         \/ \E w \in writers : w[1] = task[t].uri
                         \/ task[t].uri \in creators]_vars

\* the blocking call of a cancelled request has run to its end and sent the
\* request, the request has no result, and the cache has no file for it
C20_Witness ==
    \E t \in Tasks :
        /\ task[t].pc = "cancelled"
        /\ task[t].worker = "finished"
        /\ task[t].used_net
        /\ task[t].sent_to = task[t].uri
        /\ task[t].status = 0
        /\ task[t].result = NoResult
        /\ cache_enabled
        /\ url_to_hash(task[t].uri) \notin DOMAIN cache

\* C21: a request that found a cache entry for its URL ends with the read of
\* the file: when the read fails it returns an Io error, it does not go on
\* to a network fetch, and the step leaves every file of the cache as it
\* was.
C21_CacheReadFailureIsIo ==
    [][\A t \in Tasks :
          (/\ task[t].pc \in {"cache_open", "cache_read", "cache_return"}
           /\ task'[t].pc # task[t].pc) =>
              /\ task'[t].pc \in {"cache_read", "cache_return", "done"}
              /\ ~task'[t].used_net
              /\ task'[t].worker = "none"
              /\ cache' = cache
              /\ served' = served
              /\ task'[t].pc = "cache_return" =>
                    task'[t].buffer = cache[url_to_hash(task[t].uri)]
              /\ task'[t].pc = "done" =>
                    \/ /\ task[t].pc = "cache_return"
                       /\ task'[t].result = Success(task[t].buffer)
                    \/ /\ task[t].pc # "cache_return"
                       /\ task'[t].result = IoFromError("cache_read")]_vars

C21_Witness ==
    \E t \in Tasks :
        /\ Done(t)
        /\ task[t].had_entry
        /\ task[t].result = IoFromError("cache_read")
        /\ ~task[t].used_net
        /\ cache[url_to_hash(task[t].uri)] = <<2, 3>>

\* the result of a fetch that failed: NotFound, HttpError, or the Io of a
\* transport failure
FetchFailed(res) ==
    \/ res.kind \in {"NotFound", "HttpError"}
    \/ res.kind = "Io" /\ res.cause = "transport"

\* C22: the step in which a fetch ends in NotFound, HttpError or the Io of a
\* transport failure changes no file of the cache; and the next request for
\* the URL of such a fetch, when no other request for that URL was in flight
\* with it or is known, goes to the network again.
C22_FailedFetchLeavesCache ==
    [][/\ \A t \in Tasks :
            (/\ task[t].pc = "net_call"
             /\ task'[t].pc = "done"
             /\ FetchFailed(task'[t].result)) =>
                cache' = cache
       /\ \A t, u \in Tasks :
            (/\ Done(t)
             /\ task[t].op \in {"read", "read_meta"}
             /\ FetchFailed(task[t].result)
             /\ ~task[t].concurrent
             /\ \A w \in Tasks \ {t} : task[w].uri # task[t].uri
             /\ Free(u)
             /\ task'[u] # task[u]
             /\ task'[u].op \in {"read", "read_meta"}
             /\ task'[u].uri = task[t].uri) =>
                /\ task'[u].pc = "net_call"
                /\ task'[u].used_net
                /\ ~task'[u].had_entry]_vars

C22_Witness ==
    \E t \in Tasks :
        /\ cache_enabled
        /\ Done(t)
        /\ task[t].result.kind = "NotFound"
        /\ ~task[t].concurrent
        /\ url_to_hash(task[t].uri) \notin DOMAIN cache
        /\ started < MaxRequests

\* C23: AllowedOrigins::new panics exactly when one of its strings is no
\* well-formed URL; when all are well-formed it gives Only of exactly their
\* origins; a policy that was constructed answers every is_allowed call with
\* true or false.
C23_NewFailsIffMalformed ==
    ~probe.all =>
        LET bad == probe.strings \cap MalformedStrings # {}
            expected(s) ==
                CASE s = <<"https:", "/", "/", "a.com">> ->
                         <<<<"https">>, <<"a.com">>, 443>>
                  [] s = <<"http:", "/", "/", "a.com">> ->
                         <<<<"http">>, <<"a.com">>, 80>>
                  [] s = <<"https:", "/", "/", "a.com", ":8443">> ->
                         <<<<"https">>, <<"a.com">>, 8443>>
                  [] s = <<"https:", "/", "/", "b.com">> ->
                         <<<<"https">>, <<"b.com">>, 443>>
                  [] s = <<"a.com", ":8443">> ->
                         <<<<"opaque">>, <<"new", "a.com", ":8443">>, 0>>
        IN  /\ reader.allowed_origins = ExpectPanic <=> bad
            /\ ~bad => reader.allowed_origins =
                           [kind |-> "Only",
                            origins |-> {expected(s) : s \in probe.strings}]
            /\ probe.fn = "is_allowed" =>
                  /\ ~bad
                  /\ probe.allowed \in BOOLEAN

C23_Witness ==
    /\ ~probe.all
    /\ probe.strings = {<<"https:", "/", "/", "a.com">>, <<"a.com">>}
    /\ reader.allowed_origins = ExpectPanic

====
